---- MODULE Spec2Model ----
(***************************************************************************)
(* Plan execution engine of the LLM tool orchestrator                      *)
(* (src/pages/api/chat.ts and its collaborators).                          *)
(*                                                                         *)
(* JavaScript values are tagged records.  A JavaScript string is a         *)
(* sequence of lexemes: a lexeme is a TLA+ string standing for one unit of *)
(* text (a delimiter such as "{{" or "prev:", one digit, one word, one     *)
(* blank).  The regular expressions of the source are evaluated lexeme by  *)
(* lexeme.  An object is a function from its own keys to values.           *)
(***************************************************************************)
EXTENDS Integers, Sequences, FiniteSets, TLC

\* ------------------------------------------------------------------------
\* Bounds of the model
\* ------------------------------------------------------------------------
MaxPlanLen == 3

MaxTextLen == 4

MaxArgKeys == 2

MaxPathLen == 2

MaxIndex == 1

MaxListLen == 2

MaxPadLen == 1

\* ------------------------------------------------------------------------
\* JavaScript values
\* ------------------------------------------------------------------------
Undef == [t |-> "undefined"]

Null == [t |-> "null"]

Bool(b) == [t |-> "boolean", b |-> b]

Num(n) == [t |-> "number", n |-> n]

Str(s) == [t |-> "string", s |-> s]

Arr(e) == [t |-> "array", a |-> e]

Obj(f) == [t |-> "object", o |-> f]

\* a function value (only ever met as an inherited member such as Object)
Fn(name) == [t |-> "function", f |-> name]

EmptyObj == Obj(<<>>)

\* JavaScript truthiness: undefined, null, false, 0 and "" are falsy
Truthy(v) ==
  CASE v.t = "undefined" -> FALSE
    [] v.t = "null" -> FALSE
    [] v.t = "boolean" -> v.b
    [] v.t = "number" -> v.n # 0
    [] v.t = "string" -> v.s # <<>>
    [] OTHER -> TRUE

\* ------------------------------------------------------------------------
\* Lexemes
\* ------------------------------------------------------------------------
Digits == <<"0", "1", "2", "3", "4", "5", "6", "7", "8", "9">>

IsDigit(c) == \E d \in 1..Len(Digits) : Digits[d] = c

DigitVal(c) == (CHOOSE d \in 1..Len(Digits) : Digits[d] = c) - 1

\* \s
IsSpace(c) == c \in {" ", "\n"}

\* lexemes that are not made of \w characters
NonWord == {"{{", "}}", "prev:", ".", "[", "]", " ", "\n", "-", "!", ":", ",", "\"", "functions."}

\* \w : a digit or a word lexeme
IsWord(c) == c \notin NonWord

\* parseInt(digits, 10) of a run of digit lexemes
RECURSIVE ParseInt(_)
ParseInt(ds) ==
  IF ds = <<>> THEN 0
  ELSE 10 * ParseInt(SubSeq(ds, 1, Len(ds) - 1)) + DigitVal(ds[Len(ds)])

\* the text of a lexeme sequence as one property key
RECURSIVE Join(_)
Join(s) == IF s = <<>> THEN "" ELSE Head(s) \o Join(Tail(s))

\* String(n) for a natural number, as lexemes
RECURSIVE NumText(_)
NumText(n) ==
  IF n < 10 THEN <<Digits[n + 1]>>
  ELSE NumText(n \div 10) \o <<Digits[(n % 10) + 1]>>

\* the end of the maximal run of lexemes satisfying a class, starting at p
\* (p - 1 when s[p] is not in the class)
RECURSIVE DigitRunEnd(_, _)
DigitRunEnd(s, p) ==
  IF p <= Len(s) /\ IsDigit(s[p]) THEN DigitRunEnd(s, p + 1) ELSE p - 1

RECURSIVE WordRunEnd(_, _)
WordRunEnd(s, p) ==
  IF p <= Len(s) /\ IsWord(s[p]) THEN WordRunEnd(s, p + 1) ELSE p - 1

RECURSIVE SpaceRunEnd(_, _)
SpaceRunEnd(s, p) ==
  IF p <= Len(s) /\ IsSpace(s[p]) THEN SpaceRunEnd(s, p + 1) ELSE p - 1

\* ------------------------------------------------------------------------
\* Property access
\* ------------------------------------------------------------------------
\* members every non-nullish value inherits from Object.prototype
ObjectPrototypeKeys == {"constructor", "toString", "hasOwnProperty", "valueOf"}

\* a lexeme sequence that is a canonical array index ("0", "1", "12", ...)
IsIndexKey(k) ==
  /\ k # <<>>
  /\ \A j \in 1..Len(k) : IsDigit(k[j])
  /\ (Len(k) > 1 => k[1] # "0")

\* v[n] for a number n
GetIndex(v, n) ==
  CASE v.t = "array" -> IF n < Len(v.a) THEN v.a[n + 1] ELSE Undef
    [] v.t = "string" -> IF n < Len(v.s) THEN Str(<<v.s[n + 1]>>) ELSE Undef
    [] v.t = "object" ->
         IF Join(NumText(n)) \in DOMAIN v.o THEN v.o[Join(NumText(n))] ELSE Undef
    [] OTHER -> Undef

\* the member a value inherits under key k (undefined when there is none)
Inherited(k) ==
  IF k \in ObjectPrototypeKeys THEN Fn(k)
  ELSE IF k = "__proto__" THEN EmptyObj
  ELSE Undef

\* an object whose prototype was replaced by proto (an object or null),
\* as the assignment obj["__proto__"] = proto does
ObjWithProto(f, proto) == [t |-> "object", o |-> f, p |-> proto]

\* what the object v finds for key beyond its own properties, along its
\* prototype chain: [found, v]
RECURSIVE ProtoLookup(_, _)
ProtoLookup(v, key) ==
  IF "p" \notin DOMAIN v
  THEN [found |-> Inherited(key) # Undef, v |-> Inherited(key)]
  ELSE IF v.p.t = "null" THEN [found |-> FALSE, v |-> Undef]
  ELSE IF key = "__proto__" THEN [found |-> TRUE, v |-> v.p]
  ELSE CASE v.p.t = "object" ->
              IF key \in DOMAIN v.p.o THEN [found |-> TRUE, v |-> v.p.o[key]]
              ELSE ProtoLookup(v.p, key)
         [] v.p.t = "array" ->
              IF \E j \in 1..Len(v.p.a) : Join(NumText(j - 1)) = key
              THEN [found |-> TRUE,
                    v |-> v.p.a[CHOOSE j \in 1..Len(v.p.a) : Join(NumText(j - 1)) = key]]
              ELSE IF key = "length" THEN [found |-> TRUE, v |-> Num(Len(v.p.a))]
              ELSE [found |-> Inherited(key) # Undef, v |-> Inherited(key)]
         [] OTHER -> [found |-> Inherited(key) # Undef, v |-> Inherited(key)]

\* v[key] for a non-nullish v and a string key given as lexemes
GetProp(v, key) ==
  CASE v.t = "object" ->
         IF Join(key) \in DOMAIN v.o THEN v.o[Join(key)] ELSE ProtoLookup(v, Join(key)).v
    [] v.t = "array" ->
         IF IsIndexKey(key) THEN GetIndex(v, ParseInt(key))
         ELSE IF key = <<"length">> THEN Num(Len(v.a))
         ELSE Inherited(Join(key))
    [] v.t = "string" ->
         IF IsIndexKey(key) THEN GetIndex(v, ParseInt(key))
         ELSE IF key = <<"length">> THEN Num(Len(v.s))
         ELSE Inherited(Join(key))
    [] OTHER -> Inherited(Join(key))

\* v?.[key]
OptGet(v, key) == IF v.t \in {"undefined", "null"} THEN Undef ELSE GetProp(v, key)

\* ------------------------------------------------------------------------
\* substituteTemplates
\* ------------------------------------------------------------------------
\* \s*}} matches at position r
Closes(s, r) ==
  LET e == SpaceRunEnd(s, r) + 1 IN e <= Len(s) /\ s[e] = "}}"

\* the lazy [\s\S]+? : the least end b >= a of the path such that \s*}} follows
\* (0 when there is none)
RECURSIVE PathEnd(_, _)
PathEnd(s, b) ==
  IF b > Len(s) THEN 0
  ELSE IF Closes(s, b + 1) THEN b
  ELSE PathEnd(s, b + 1)

\* /{{\s*prev:(\d+)\.([\s\S]+?)\s*}}/ attempted at position p:
\* [ok, index, path]
TemplateAt(s, p) ==
  LET q == SpaceRunEnd(s, p + 1) + 1
      d == DigitRunEnd(s, q + 1)
      b == PathEnd(s, d + 2)
      ok == /\ s[p] = "{{"
            /\ q <= Len(s) /\ s[q] = "prev:"
            /\ d >= q + 1
            /\ d + 1 <= Len(s) /\ s[d + 1] = "."
            /\ b # 0
  IN  IF ok THEN [ok |-> TRUE, index |-> SubSeq(s, q + 1, d), path |-> SubSeq(s, d + 2, b)]
      ELSE [ok |-> FALSE, index |-> <<>>, path |-> <<>>]

\* value.match(regex): the leftmost position at which the pattern matches
MatchTemplate(s) ==
  LET hits == {p \in 1..Len(s) : TemplateAt(s, p).ok}
  IN  IF hits = {} THEN [ok |-> FALSE, index |-> <<>>, path |-> <<>>]
      ELSE TemplateAt(s, CHOOSE p \in hits : \A r \in hits : p <= r)

\* path.split(".")
RECURSIVE SplitDots(_)
SplitDots(path) ==
  LET dots == {p \in 1..Len(path) : path[p] = "."}
  IN  IF dots = {} THEN <<path>>
      ELSE LET p == CHOOSE x \in dots : \A y \in dots : x <= y
           IN  <<SubSeq(path, 1, p - 1)>> \o SplitDots(SubSeq(path, p + 1, Len(path)))

\* key.match(/(\w+)\[(\d+)\]/): [ok, prop, idx]
ArrayMatch(key) ==
  LET starts == {p \in 1..Len(key) :
                   /\ IsWord(key[p])
                   /\ (p = 1 \/ ~IsWord(key[p - 1]))
                   /\ LET e == WordRunEnd(key, p)
                          d == DigitRunEnd(key, e + 2)
                      IN  /\ e + 1 <= Len(key) /\ key[e + 1] = "["
                          /\ d >= e + 2
                          /\ d + 1 <= Len(key) /\ key[d + 1] = "]"}
  IN  IF starts = {} THEN [ok |-> FALSE, prop |-> <<>>, idx |-> <<>>]
      ELSE LET p == CHOOSE x \in starts : \A y \in starts : x <= y
               e == WordRunEnd(key, p)
           IN  [ok |-> TRUE, prop |-> SubSeq(key, p, e),
                idx |-> SubSeq(key, e + 2, DigitRunEnd(key, e + 2))]

\* the reducer of path.split(".").reduce(..., prev)
PathStep(acc, key) ==
  LET m == ArrayMatch(key)
  IN  IF m.ok
      THEN IF Truthy(acc) /\ Truthy(GetProp(acc, m.prop))
           THEN GetIndex(GetProp(acc, m.prop), ParseInt(m.idx))
           ELSE Undef
      ELSE IF Truthy(acc) THEN GetProp(acc, key) ELSE Undef

RECURSIVE Reduce(_, _)
Reduce(keys, acc) ==
  IF keys = <<>> THEN acc ELSE Reduce(Tail(keys), PathStep(acc, Head(keys)))

ResolvePath(prev, path) == Reduce(SplitDots(path), prev)

\* a one-based read of the history, one entry too early
ResultAtOneBased(history, index) ==
  IF index >= 1 /\ index <= Len(history) THEN history[index] ELSE Undef

\* results[index] of a JavaScript array
ResultAt(history, index) ==
  IF index < Len(history) THEN history[index + 1] ELSE Undef

\* a string branch that puts a resolved string in the place of the token
\* and keeps the text around it
SubstituteStringInterpolating(s, results) ==
  LET m == MatchTemplate(s)
      hits == {p \in 1..Len(s) : TemplateAt(s, p).ok}
      from == CHOOSE p \in hits : \A r \in hits : p <= r
      dot == DigitRunEnd(s, SpaceRunEnd(s, from + 1) + 2) + 1
      to == SpaceRunEnd(s, PathEnd(s, dot + 1) + 1) + 1
  IN  IF m.ok
      THEN LET prev == ResultAt(results, ParseInt(m.index))
               v == IF prev = Undef THEN Undef ELSE ResolvePath(prev, m.path)
           IN  IF v.t = "string"
               THEN Str(SubSeq(s, 1, from - 1) \o v.s \o SubSeq(s, to + 1, Len(s)))
               ELSE v
      ELSE Str(s)

\* the string branch of substituteTemplates
SubstituteString(s, results) ==
  LET m == MatchTemplate(s)
  IN  IF m.ok
      THEN LET prev == ResultAt(results, ParseInt(m.index))
           IN  IF prev = Undef THEN Undef ELSE ResolvePath(prev, m.path)
      ELSE Str(s)

RECURSIVE substituteTemplates(_, _)
substituteTemplates(value, results) ==
  CASE value.t = "string" -> SubstituteString(value.s, results)
    [] value.t = "array" ->
         Arr([j \in 1..Len(value.a) |-> substituteTemplates(value.a[j], results)])
    [] value.t = "object" ->
         \* out[key] = ... for each of Object.keys(value); for the key
         \* "__proto__" the assignment is the prototype setter: it adds no
         \* property, and replaces out's prototype when given an object or null
         LET own == [k \in DOMAIN value.o \ {"__proto__"} |->
                       substituteTemplates(value.o[k], results)]
             proto == IF "__proto__" \in DOMAIN value.o
                      THEN substituteTemplates(value.o["__proto__"], results)
                      ELSE Undef
         IN  IF proto.t \in {"object", "array", "function", "null"}
             THEN ObjWithProto(own, proto)
             ELSE Obj(own)
    [] OTHER -> value

\* ------------------------------------------------------------------------
\* sanitizeArgs
\* ------------------------------------------------------------------------
\* Object.keys(v), as a set
ObjectKeys(v) ==
  CASE v.t = "object" -> DOMAIN v.o
    [] v.t = "array" -> {Join(NumText(j - 1)) : j \in 1..Len(v.a)}
    [] v.t = "string" -> {Join(NumText(j - 1)) : j \in 1..Len(v.s)}
    [] OTHER -> {}

\* whether `key in v` throws (the right operand is not an object)
InThrows(v) == v.t \notin {"object", "array", "function"}

\* key in v, own or inherited
HasKey(v, key) ==
  CASE v.t = "object" -> key \in DOMAIN v.o \/ ProtoLookup(v, key).found
    [] v.t = "array" ->
         \/ key \in ObjectKeys(v) \/ key = "length" \/ Inherited(key) # Undef
    [] OTHER -> Inherited(key) # Undef

\* v[key] for a key given as one string
GetKey(v, key) ==
  CASE v.t = "object" -> IF key \in DOMAIN v.o THEN v.o[key] ELSE ProtoLookup(v, key).v
    [] v.t = "array" ->
         IF key \in ObjectKeys(v)
         THEN v.a[CHOOSE j \in 1..Len(v.a) : Join(NumText(j - 1)) = key]
         ELSE IF key = "length" THEN Num(Len(v.a))
         ELSE Inherited(key)
    [] OTHER -> Inherited(key)

\* a sanitizer that copies a key only when its value is defined
sanitizeArgsSkippingUndefined(toolDef, rawArgs) ==
  LET props == OptGet(OptGet(OptGet(toolDef, <<"function">>), <<"parameters">>),
                      <<"properties">>)
      allowed == IF Truthy(props) THEN ObjectKeys(props) ELSE {}
      raw == IF rawArgs = Undef THEN EmptyObj ELSE rawArgs
  IN  IF allowed # {} /\ InThrows(raw) THEN raw
      ELSE Obj([k \in {a \in allowed : HasKey(raw, a) /\ GetKey(raw, a) # Undef} |->
                  GetKey(raw, k)])

sanitizeArgs(toolDef, rawArgs) ==
  LET props == OptGet(OptGet(OptGet(toolDef, <<"function">>), <<"parameters">>),
                      <<"properties">>)
      allowed == IF Truthy(props) THEN ObjectKeys(props) ELSE {}
      \* the default parameter value: rawArgs = {} when undefined is passed
      raw == IF rawArgs = Undef THEN EmptyObj ELSE rawArgs
  IN  IF allowed # {} /\ InThrows(raw) THEN raw
      ELSE Obj([k \in {a \in allowed : HasKey(raw, a)} |-> GetKey(raw, k)])

\* ------------------------------------------------------------------------
\* extractJsonArray
\* ------------------------------------------------------------------------
\* The model's text is a sequence of tokens.  A token is a piece of
\* punctuation or prose, [c |-> lexeme], or the literal of one JSON value
\* that holds no bracket, [c |-> "value", v |-> value].
Tok(c) == [c |-> c]

ValTok(v) == [c |-> "value", v |-> v]

\* inside a string literal: the literal of a value, its quotes escaped
EscTok(v) == [c |-> "escaped", v |-> v]

\* the token holds a quote character that is not escaped
HasRawQuote(tok) ==
  \/ tok.c \in {"\"", "{k:"}
  \/ (tok.c = "value" /\ tok.v.t \in {"string", "object"})

\* the text a token of a string literal stands for
Decode(tok) == IF tok.c = "escaped" THEN ValTok(tok.v) ELSE tok

\* JSON whitespace
IsJsonSpace(tok) == tok.c \in {" ", "\n"}

RECURSIVE SkipSpace(_, _)
SkipSpace(text, p) ==
  IF p <= Len(text) /\ IsJsonSpace(text[p]) THEN SkipSpace(text, p + 1) ELSE p

NoParse == [ok |-> FALSE, v |-> Undef, next |-> 0]

\* the JSON grammar: a value literal, an array [v, ...], an object {"k": v}
\* (the object's opening, key and colon are the one token "{k:"), and a
\* string literal between two quote tokens, whose value is the string of
\* the decoded text between them (a raw line break inside it is an error)
RECURSIVE ParseValue(_, _)
RECURSIVE ParseElems(_, _, _)
ParseValue(text, p0) ==
  LET p == SkipSpace(text, p0)
  IN  IF p > Len(text) THEN NoParse
      ELSE CASE text[p].c = "value" -> [ok |-> TRUE, v |-> text[p].v, next |-> p + 1]
             [] text[p].c = "[" ->
                  LET q == SkipSpace(text, p + 1)
                  IN  IF q <= Len(text) /\ text[q].c = "]"
                      THEN [ok |-> TRUE, v |-> Arr(<<>>), next |-> q + 1]
                      ELSE ParseElems(text, p + 1, <<>>)
             [] text[p].c = "\"" ->
                  LET ends == {q \in (p + 1)..Len(text) : HasRawQuote(text[q])}
                      e == IF ends = {} THEN 0
                           ELSE CHOOSE q \in ends : \A r \in ends : q <= r
                  IN  IF e # 0 /\ text[e].c = "\""
                           /\ \A j \in (p + 1)..(e - 1) : text[j].c # "\n"
                      THEN [ok |-> TRUE,
                            v |-> Str([j \in 1..(e - p - 1) |-> Decode(text[p + j])]),
                            next |-> e + 1]
                      ELSE NoParse
             [] text[p].c = "{k:" ->
                  LET r == ParseValue(text, p + 1)
                      q == SkipSpace(text, r.next)
                  IN  IF r.ok /\ q <= Len(text) /\ text[q].c = "}"
                      THEN [ok |-> TRUE, v |-> Obj("k" :> r.v), next |-> q + 1]
                      ELSE NoParse
             [] OTHER -> NoParse

ParseElems(text, p, acc) ==
  LET r == ParseValue(text, p)
      q == SkipSpace(text, r.next)
  IN  IF ~r.ok \/ q > Len(text) THEN NoParse
      ELSE IF text[q].c = "]"
           THEN [ok |-> TRUE, v |-> Arr(Append(acc, r.v)), next |-> q + 1]
      ELSE IF text[q].c = ","
           THEN ParseElems(text, q + 1, Append(acc, r.v))
      ELSE NoParse

\* JSON.parse(text): [ok, v]; ok = FALSE when it throws
JsonParse(text) ==
  LET r == ParseValue(text, 1)
  IN  IF r.ok /\ SkipSpace(text, r.next) = Len(text) + 1
      THEN [ok |-> TRUE, v |-> r.v]
      ELSE [ok |-> FALSE, v |-> Undef]

\* a lazy match: from the first "[" to the first "]" after it
BracketSpanLazy(text) ==
  LET opens == {p \in 1..Len(text) : text[p].c = "["}
  IN  IF opens = {} THEN [ok |-> FALSE, span |-> <<>>]
      ELSE LET a == CHOOSE x \in opens : \A y \in opens : x <= y
               closes == {p \in (a + 1)..Len(text) : text[p].c = "]"}
           IN  IF closes = {} THEN [ok |-> FALSE, span |-> <<>>]
               ELSE [ok |-> TRUE,
                     span |-> SubSeq(text, a, CHOOSE x \in closes : \A y \in closes : x <= y)]

\* content.match(/\[[\s\S]*\]/): greedy, from the first "[" to the last "]"
BracketSpan(text) ==
  LET opens == {p \in 1..Len(text) : text[p].c = "["}
      closes == {p \in 1..Len(text) : text[p].c = "]"}
  IN  IF opens = {} \/ closes = {} THEN [ok |-> FALSE, span |-> <<>>]
      ELSE LET a == CHOOSE x \in opens : \A y \in opens : x <= y
               b == CHOOSE x \in closes : \A y \in closes : x >= y
           IN  IF a < b THEN [ok |-> TRUE, span |-> SubSeq(text, a, b)]
               ELSE [ok |-> FALSE, span |-> <<>>]

\* any[] | null  (null is Null)
extractJsonArray(content) ==
  LET direct == JsonParse(content)
      match == BracketSpan(content)
      inner == JsonParse(match.span)
  IN  IF direct.ok /\ direct.v.t = "array" THEN direct.v
      ELSE IF match.ok /\ inner.ok /\ inner.v.t = "array" THEN inner.v
      ELSE Null

\* ------------------------------------------------------------------------
\* stringifyToolResult
\* ------------------------------------------------------------------------
\* the elements of a finite set of keys, in one fixed order
RECURSIVE KeySeq(_)
KeySeq(keys) ==
  IF keys = {} THEN <<>>
  ELSE LET k == CHOOSE x \in keys : TRUE IN <<k>> \o KeySeq(keys \ {k})

\* parts.join(sep) for a sequence of lexeme sequences
RECURSIVE JoinWith(_, _)
JoinWith(parts, sep) ==
  IF parts = <<>> THEN <<>>
  ELSE IF Len(parts) = 1 THEN parts[1]
  ELSE parts[1] \o sep \o JoinWith(Tail(parts), sep)

\* values JSON.stringify leaves out of an object and writes as null in an array
Unserializable(v) == v.t \in {"undefined", "function"}

\* JSON.stringify(v) for a serializable v, as lexemes
RECURSIVE JsonStringify(_)
JsonStringify(v) ==
  CASE v.t = "null" -> <<"null">>
    [] v.t = "boolean" -> IF v.b THEN <<"true">> ELSE <<"false">>
    [] v.t = "number" -> NumText(v.n)
    [] v.t = "string" -> <<"\"">> \o v.s \o <<"\"">>
    [] v.t = "array" ->
         <<"[">> \o JoinWith([j \in 1..Len(v.a) |->
                                IF Unserializable(v.a[j]) THEN <<"null">>
                                ELSE JsonStringify(v.a[j])], <<",">>) \o <<"]">>
    [] v.t = "object" ->
         LET ks == KeySeq({k \in DOMAIN v.o : ~Unserializable(v.o[k])})
         IN  <<"{">> \o JoinWith([j \in 1..Len(ks) |->
                                    <<"\"", ks[j], "\"", ":">> \o JsonStringify(v.o[ks[j]])],
                                 <<",">>) \o <<"}">>
    [] OTHER -> <<"null">>

\* String(v)
RECURSIVE StringOf(_)
StringOf(v) ==
  CASE v.t = "undefined" -> <<"undefined">>
    [] v.t = "null" -> <<"null">>
    [] v.t = "boolean" -> IF v.b THEN <<"true">> ELSE <<"false">>
    [] v.t = "number" -> NumText(v.n)
    [] v.t = "string" -> v.s
    [] v.t = "array" ->
         JoinWith([j \in 1..Len(v.a) |->
                     IF v.a[j].t \in {"undefined", "null"} THEN <<>>
                     ELSE StringOf(v.a[j])], <<",">>)
    [] v.t = "object" -> <<"[object Object]">>
    [] OTHER -> <<"function">>

\* one line of the meetings list; reading m.name of a nullish m throws
MeetingLine(m, i) ==
  NumText(i) \o <<".", " ">> \o StringOf(GetProp(m, <<"name">>)) \o <<" ", "(id:", " ">>
    \o StringOf(GetProp(m, <<"id">>)) \o <<")">>

RECURSIVE stringifyToolResult(_)
stringifyToolResult(res) ==
  CASE res.t \in {"null", "undefined"} -> <<>>
    [] res.t = "string" -> res.s
    [] res.t \in {"number", "boolean"} -> StringOf(res)
    [] res.t = "array" ->
         JoinWith([j \in 1..Len(res.a) |-> stringifyToolResult(res.a[j])], <<",", " ">>)
    [] OTHER ->
         IF HasKey(res, "day") THEN StringOf(GetKey(res, "day"))
         ELSE IF HasKey(res, "date") THEN StringOf(GetKey(res, "date"))
         ELSE IF HasKey(res, "meetings") /\ GetKey(res, "meetings").t = "array"
         THEN LET ms == GetKey(res, "meetings").a
              IN  IF \E j \in 1..Len(ms) : ms[j].t \in {"null", "undefined"}
                  THEN StringOf(res)
                  ELSE <<"Meetings:", "\n">>
                         \o JoinWith([j \in 1..Len(ms) |-> MeetingLine(ms[j], j)], <<"\n">>)
         ELSE JsonStringify(res)

\* ------------------------------------------------------------------------
\* Tools and assistants
\* ------------------------------------------------------------------------
\* a tool's definition: { type: "function", function: { name, parameters:
\* { type: "object", properties } } }
ToolDefinition(name, props) ==
  Obj(("type" :> Str(<<"function">>)) @@
      ("function" :>
         Obj(("name" :> Str(<<name>>)) @@
             ("parameters" :>
                Obj(("type" :> Str(<<"object">>)) @@
                    ("properties" :> Obj([k \in props |-> Obj("type" :> Str(<<"string">>))])))))))

\* a registry entry { definition, handler }
ToolEntry(name, props) ==
  Obj(("definition" :> ToolDefinition(name, props)) @@ ("handler" :> Fn(name)))

getCurrentDateTool == ToolEntry("getCurrentDate", {"offset"})

getDayOfWeekTool == ToolEntry("getDayOfWeek", {"date"})

fetchMeetingsTool == ToolEntry("fetchMeetings", {"limit"})

fetchMeetingDetailsTool == ToolEntry("fetchMeetingDetails", {"meetingId"})

generateActionsTool == ToolEntry("generateActions", {"topicPointTitle", "minutes", "topicName"})

\* assistant.tools of the two assistants
dateAssistant ==
  Obj(("getCurrentDate" :> getCurrentDateTool) @@ ("getDayOfWeek" :> getDayOfWeekTool))

meetingAssistant ==
  Obj(("fetchMeetings" :> fetchMeetingsTool) @@
      ("fetchMeetingDetails" :> fetchMeetingDetailsTool) @@
      ("generateActions" :> generateActionsTool))

\* the assistants registry; an assistant is represented by its tools
assistants ==
  Obj(("dateAssistant" :> dateAssistant) @@ ("meetingAssistant" :> meetingAssistant))

IsoDate == Str(<<"2025-05-28T09:00:00.000Z">>)

MeetingsResult ==
  Obj("meetings" :> Arr(<<Obj(("meetingId" :> Str(<<"m1">>)) @@ ("id" :> Str(<<"m1">>)) @@
                            ("name" :> Str(<<"Project Review">>)))>>))

ErrorResult == Obj("error" :> Str(<<"Failed to fetch meetings.">>))

Return(v) == [kind |-> "return", v |-> v]

Throw == [kind |-> "throw", v |-> Undef]

\* what a tool's handler may do with the arguments it is given
HandlerOutcomes(name, args) ==
  CASE name = "getCurrentDate" ->
         \* setDate may leave the representable range, and toISOString then throws
         IF GetKey(args, "offset").t = "number" /\ Truthy(GetKey(args, "offset"))
         THEN {Return(Obj("date" :> IsoDate)), Throw}
         ELSE {Return(Obj("date" :> IsoDate))}
    [] name = "getDayOfWeek" ->
         IF GetKey(args, "date") = IsoDate
         THEN {Return(Obj("day" :> Str(<<"Wednesday">>)))}
         ELSE {Return(Obj("day" :> Str(<<"Invalid Date">>)))}
    [] name = "fetchMeetings" -> {Return(MeetingsResult), Return(ErrorResult)}
    [] name = "fetchMeetingDetails" ->
         IF GetKey(args, "meetingId").t = "string"
         THEN {Return(Str(<<"Topics of ">> \o GetKey(args, "meetingId").s))}
         ELSE {Return(Str(<<"No topics found for this meeting.">>))}
    [] OTHER -> {Return(Str(<<"No immediate actions identified.">>))}

\* ------------------------------------------------------------------------
\* Plans the planning model may return
\* ------------------------------------------------------------------------
Step(tool, args) == Obj(("tool" :> Str(tool)) @@ ("args" :> args))

StepNoArgs(tool) == Obj("tool" :> Str(tool))

\* "{{prev:N.date}}"
DateRef(n) == Str(<<"{{", "prev:">> \o NumText(n) \o <<".", "date", "}}">>)

\* "{{prev:0.meetings[0].meetingId}}"
MeetingIdRef ==
  Str(<<"{{", "prev:", "0", ".", "meetings", "[", "0", "]", ".", "meetingId", "}}">>)

PlanSteps ==
  { Step(<<"getCurrentDate">>, Obj(("offset" :> Num(2)) @@ ("bogus" :> Num(1)))),
    Step(<<"functions.", "getCurrentDate">>, Obj(("offset" :> Num(1)) @@ ("bogus" :> Num(1)))),
    StepNoArgs(<<"fetchMeetings">>),
    Step(<<"fetchMeetingDetails">>, Obj("meetingId" :> MeetingIdRef)),
    StepNoArgs(<<"TOOL_NOT_AVAILABLE">>),
    Step(<<"constructor">>, EmptyObj) }
  \cup { Step(<<"getDayOfWeek">>, Obj("date" :> DateRef(n))) : n \in 0..(MaxPlanLen - 1) }

Plans == UNION { [1..n -> PlanSteps] : n \in 0..MaxPlanLen }

\* the JSON text of a plan: "[" step "," step ... "]"
PlanText(steps) ==
  <<Tok("[")>> \o JoinWith([j \in 1..Len(steps) |-> <<ValTok(steps[j])>>], <<Tok(",")>>)
    \o <<Tok("]")>>

\* the same text inside prose and a markdown fence
Fenced(text) ==
  <<Tok("Sure!"), Tok(" "), Tok("fence-json"), Tok("\n")>> \o text \o <<Tok("\n"), Tok("fence")>>

\* message contents the planning model may produce
PlannerContents ==
  { PlanText(steps) : steps \in Plans }
  \cup { Fenced(PlanText(steps)) : steps \in Plans }
  \cup { <<>>, <<Tok("I"), Tok(" "), Tok("cannot")>>, <<ValTok(StepNoArgs(<<"getCurrentDate">>))>> }

\* what the fetch of the planner call may give
PlannerResponses ==
  { [kind |-> k, content |-> <<>>] : k \in {"rejects", "non2xx", "badBody"} }
  \cup { [kind |-> "content", content |-> c] : c \in PlannerContents }

\* what the fetch of the router call may give; name is the assistantName
\* of a content that parses as JSON ("" when it has none)
RouterResponses ==
  { [kind |-> k, json |-> FALSE, name |-> ""] : k \in {"rejects", "non2xx", "empty"} }
  \cup { [kind |-> "content", json |-> FALSE, name |-> ""] }
  \cup { [kind |-> "content", json |-> TRUE, name |-> n] :
           n \in {"", "dateAssistant", "meetingAssistant", "weatherAssistant", "constructor"} }

\* ------------------------------------------------------------------------
\* Response texts
\* ------------------------------------------------------------------------
NoPlanMessage == <<"Sorry, I couldn't create a plan for that request.">>

RefusalMessage == <<"Sorry, no suitable tool is available for that request.">>

NotFoundMessage(tool) == <<"Tool \"">> \o tool \o <<"\" not found for this assistant.">>

PlannerErrorMessage == <<"Planner model error: ", "5", "0", "3">>

ParseFailureMessage == <<"Failed to parse plan JSON from model.">>

ServerError == <<"Server error">>

\* ------------------------------------------------------------------------
\* The request handler
\* ------------------------------------------------------------------------
VARIABLES
  pc,            \* where the handler stands: "start", "routing", "planning",
                 \* "loop", "invoking", "done"
  assistant,     \* the name of the selected assistant ("" before routing)
  routerResult,  \* how the router call ended ("" before it returned)
  plannerResult, \* how the planner call ended ("" before it returned)
  plan,          \* the plan (an array value; Null before planning)
  i,             \* the index of the step the for loop stands at
  results,       \* the result history
  calls,         \* the handler invocations made so far: [step, tool, args]
  inflight,      \* the number of handler invocations awaited
  settled,       \* how the awaited invocations ended, in order
  responses,     \* the HTTP responses sent: [status, content]
  routerCalls,   \* the number of fetches made by selectAssistantFromModel
  plannerCalls,  \* the number of fetches made by requestPlanFromModel
  probe,         \* input and output of the pure function under test
  requests,      \* the handler calls in progress side by side: for each
                 \* request the local state of its call (<<>> when one
                 \* request is handled on its own)
  registry       \* the assistants registry, a value of the module

vars ==
  <<pc, assistant, routerResult, plannerResult, plan, i, results, calls, inflight,
    settled, responses, routerCalls, plannerCalls, probe, requests, registry>>

\* the handler before a request
HandlerIdle ==
  /\ pc = "start"
  /\ assistant = ""
  /\ routerResult = ""
  /\ plannerResult = ""
  /\ plan = Null
  /\ i = 0
  /\ results = <<>>
  /\ calls = <<>>
  /\ inflight = 0
  /\ settled = <<>>
  /\ responses = <<>>
  /\ routerCalls = 0
  /\ plannerCalls = 0
  /\ registry = assistants

Init == HandlerIdle /\ requests = <<>> /\ probe = <<>>

\* res.status(status).json/send(content); the handler returns
Respond(status, content) ==
  /\ responses' = Append(responses, [status |-> status, content |-> content])
  /\ pc' = "done"

\* a router whose fallback is the other assistant
selectAssistantFallbackMeeting(r) ==
  IF r.kind = "content" /\ r.json /\ r.name # "" /\ HasKey(assistants, r.name)
  THEN r.name
  ELSE "meetingAssistant"

\* the result of selectAssistantFromModel for a router response
selectAssistantFromModel(r) ==
  IF r.kind = "content" /\ r.json /\ r.name # "" /\ HasKey(assistants, r.name)
  THEN r.name
  ELSE "dateAssistant"

\* whether the router call failed: rejected fetch, non-2xx status or a
\* content that is not JSON
RouterCallFailed(r) == r.kind \in {"rejects", "non2xx"} \/ (r.kind = "content" /\ ~r.json)

\* assistants[name] || assistants.dateAssistant
AssistantOf(name) ==
  IF Truthy(GetKey(assistants, name)) THEN GetKey(assistants, name)
  ELSE GetKey(assistants, "dateAssistant")

\* the handler reads the request and awaits the router call; a body
\* without messages throws
CallRouter ==
  /\ pc = "start"
  /\ \E wellFormed \in BOOLEAN :
       IF wellFormed
       THEN /\ pc' = "routing"
            /\ routerCalls' = routerCalls + 1
            /\ UNCHANGED responses
       ELSE /\ Respond(500, ServerError)
            /\ UNCHANGED routerCalls
  /\ UNCHANGED <<assistant, routerResult, plannerResult, plan, i, results, calls,
                 inflight, settled, plannerCalls, probe>>
  /\ UNCHANGED <<requests, registry>>

\* the router call returns; the assistant is selected and the planner call
\* is awaited (building its prompt throws when the selected value is no
\* assistant)
RouterReturns ==
  /\ pc = "routing"
  /\ \E r \in RouterResponses :
       /\ assistant' = selectAssistantFromModel(r)
       /\ routerResult' = IF RouterCallFailed(r) THEN "failed" ELSE "ok"
       /\ IF AssistantOf(selectAssistantFromModel(r)).t = "object"
          THEN /\ pc' = "planning"
               /\ plannerCalls' = plannerCalls + 1
               /\ UNCHANGED responses
          ELSE /\ Respond(500, ServerError)
               /\ UNCHANGED plannerCalls
  /\ UNCHANGED <<plannerResult, plan, i, results, calls, inflight, settled, routerCalls,
                 probe>>
  /\ UNCHANGED <<requests, registry>>

\* a planner call whose unparsable plan text escapes as an exception
requestPlanThrowsOnBadPlan(r) ==
  CASE r.kind \in {"rejects", "badBody"} -> [kind |-> "throw", v |-> Undef]
    [] r.kind = "non2xx" ->
         [kind |-> "value", v |-> Obj("error" :> Str(PlannerErrorMessage))]
    [] OTHER ->
         IF r.content = <<>> THEN [kind |-> "value", v |-> Null]
         ELSE IF ~Truthy(extractJsonArray(r.content))
         THEN [kind |-> "throw", v |-> Undef]
         ELSE [kind |-> "value", v |-> extractJsonArray(r.content)]

\* what requestPlanFromModel gives for a response of the planner call:
\* [kind |-> "throw"], or [kind |-> "value", v |-> null | { error } | plan]
requestPlanFromModel(r) ==
  CASE r.kind \in {"rejects", "badBody"} -> [kind |-> "throw", v |-> Undef]
    [] r.kind = "non2xx" ->
         [kind |-> "value", v |-> Obj("error" :> Str(PlannerErrorMessage))]
    [] OTHER ->
         IF r.content = <<>> THEN [kind |-> "value", v |-> Null]
         ELSE IF ~Truthy(extractJsonArray(r.content))
         THEN [kind |-> "value", v |-> Obj("error" :> Str(ParseFailureMessage))]
         ELSE [kind |-> "value", v |-> extractJsonArray(r.content)]

\* how the planner call ended, for the record
PlannerResultOf(r) ==
  CASE r.kind # "content" -> r.kind
    [] r.content = <<>> -> "noContent"
    [] ~Truthy(extractJsonArray(r.content)) -> "parseFailure"
    [] OTHER -> "plan"

\* the ways the planner call may end: how it ended, for the record, and
\* what requestPlanFromModel gave
PlannerOutcomes ==
  { [result |-> PlannerResultOf(r), planOrErr |-> requestPlanFromModel(r)] :
      r \in PlannerResponses }

\* the planner call returns
PlannerReturns ==
  /\ pc = "planning"
  /\ \E outcome \in PlannerOutcomes :
       LET planOrErr == outcome.planOrErr
       IN  /\ plannerResult' = outcome.result
           /\ CASE planOrErr.kind = "throw" ->
                     /\ Respond(500, ServerError)
                     /\ UNCHANGED plan
                [] planOrErr.kind = "value" /\ ~Truthy(planOrErr.v) ->
                     /\ Respond(200, NoPlanMessage)
                     /\ UNCHANGED plan
                [] planOrErr.kind = "value" /\ Truthy(planOrErr.v)
                     /\ HasKey(planOrErr.v, "error") ->
                     /\ Respond(200, StringOf(GetKey(planOrErr.v, "error")))
                     /\ UNCHANGED plan
                [] OTHER ->
                     /\ plan' = planOrErr.v
                     /\ pc' = "loop"
                     /\ UNCHANGED responses
  /\ UNCHANGED <<assistant, routerResult, i, results, calls, inflight, settled,
                 routerCalls, plannerCalls, probe>>
  /\ UNCHANGED <<requests, registry>>

\* a lookup under the name as the plan wrote it
StripPrefixNever(tool) == tool

\* step.tool.replace(/^functions\./, "")
StripPrefix(tool) ==
  IF tool # <<>> /\ tool[1] = "functions." THEN Tail(tool) ELSE tool

\* a comparison with a misspelt sentinel
IsSentinelMisspelt(toolName) == Join(toolName) = "TOOL_UNAVAILABLE"

\* toolName === "TOOL_NOT_AVAILABLE"
IsSentinel(toolName) == Join(toolName) = "TOOL_NOT_AVAILABLE"

\* assistant.tools[toolName]
LookupTool(tools, toolName) == GetKey(tools, Join(toolName))

\* a resolver that writes the resolved values back into the step
StoredArgsOverwritten(stepArgs, resolved) == resolved

\* what step.args holds after its resolution and sanitization: the
\* resolver fills a fresh object (const out = {}) or a mapped array, the
\* sanitizer a fresh object (const clean = {}), and both results are bound
\* to the local variable args; step.args itself is never assigned
StoredArgs(stepArgs, resolved) == stepArgs

\* the plan with the args of step k (zero-based) replaced
PlanWithArgs(p, k, a) ==
  [p EXCEPT !.a = [p.a EXCEPT ![k + 1] =
                     [t |-> "object", o |-> [p.a[k + 1].o EXCEPT !["args"] = a]]]]

\* one iteration of the for loop up to the await of the tool's handler
StepBegin ==
  /\ pc = "loop"
  /\ i < Len(plan.a)
  /\ LET step == plan.a[i + 1]
         tool == OptGet(step, <<"tool">>)
     IN  IF step.t \in {"undefined", "null"} \/ tool.t # "string"
         THEN \* reading step.tool, or calling replace on it, throws
              /\ Respond(500, ServerError)
              /\ UNCHANGED <<calls, inflight, plan>>
         ELSE LET toolName == StripPrefix(tool.s)
                  toolEntry == LookupTool(AssistantOf(assistant), toolName)
                  rawArgs == IF Truthy(GetProp(step, <<"args">>))
                             THEN substituteTemplates(GetProp(step, <<"args">>), results)
                             ELSE EmptyObj
                  args == sanitizeArgs(OptGet(toolEntry, <<"definition">>), rawArgs)
                  handler == OptGet(toolEntry, <<"handler">>)
                  planAfter == IF Truthy(GetProp(step, <<"args">>))
                               THEN PlanWithArgs(plan, i,
                                                 StoredArgs(GetProp(step, <<"args">>), rawArgs))
                               ELSE plan
              IN  IF IsSentinel(toolName)
                  THEN /\ Respond(200, RefusalMessage)
                       /\ UNCHANGED <<calls, inflight, plan>>
                  ELSE IF ~Truthy(toolEntry)
                  THEN /\ Respond(200, NotFoundMessage(tool.s))
                       /\ UNCHANGED <<calls, inflight, plan>>
                  ELSE IF handler.t # "function"
                  THEN \* toolEntry.handler is not a function
                       /\ Respond(500, ServerError)
                       /\ plan' = planAfter
                       /\ UNCHANGED <<calls, inflight>>
                  ELSE /\ calls' = Append(calls, [step |-> i, tool |-> handler.f, args |-> args])
                       /\ inflight' = inflight + 1
                       /\ pc' = "invoking"
                       /\ plan' = planAfter
                       /\ UNCHANGED responses
  /\ UNCHANGED <<assistant, routerResult, plannerResult, i, results, settled,
                 routerCalls, plannerCalls, probe>>
  /\ UNCHANGED <<requests, registry>>

\* a value that carries an error field
ErrorShaped(v) == v.t = "object" /\ "error" \in DOMAIN v.o

\* an executor that treats an error-shaped result as a failure of the step
AwaitThrowsOnErrorValue(o) == o.kind = "throw" \/ ErrorShaped(o.v)

\* await toolEntry.handler(args) throws when the handler's promise rejects;
\* a value the handler returns, error-shaped or not, is its result
AwaitThrows(o) == o.kind = "throw"

\* a loop that does not advance
NextIndexStuck(j) == j

\* the for loop moves to the next step of the plan
NextIndex(j) == j + 1

\* a push that overwrites the last entry instead of adding one
PushOverwritingLast(history, v) ==
  IF history = <<>> THEN <<v>> ELSE [history EXCEPT ![Len(history)] = v]

\* results.push(toolResult)
Push(history, v) == Append(history, v)

\* the awaited handler settles: its result is pushed, or its rejection is
\* caught by the handler's catch
HandlerCompletes ==
  /\ pc = "invoking"
  /\ \E o \in HandlerOutcomes(calls[Len(calls)].tool, calls[Len(calls)].args) :
       /\ inflight' = inflight - 1
       /\ settled' = Append(settled, o)
       /\ IF AwaitThrows(o)
          THEN /\ Respond(500, ServerError)
               /\ UNCHANGED <<results, i>>
          ELSE /\ results' = Push(results, o.v)
               /\ i' = NextIndex(i)
               /\ pc' = "loop"
               /\ UNCHANGED responses
  /\ UNCHANGED <<assistant, routerResult, plannerResult, plan, calls, routerCalls,
                 plannerCalls, probe>>
  /\ UNCHANGED <<requests, registry>>

\* a handler that answers with the first result of the history
lastIsFirst(history) == IF history = <<>> THEN Undef ELSE history[1]

\* const last = results[results.length - 1]: undefined for an empty history
last(history) == IF history = <<>> THEN Undef ELSE history[Len(history)]

\* after the loop: the last result is formatted and sent
Finish ==
  /\ pc = "loop"
  /\ i = Len(plan.a)
  /\ Respond(200, stringifyToolResult(last(results)))
  /\ UNCHANGED <<assistant, routerResult, plannerResult, plan, i, results, calls,
                 inflight, settled, routerCalls, plannerCalls, probe>>
  /\ UNCHANGED <<requests, registry>>

Next ==
  \/ CallRouter
  \/ RouterReturns
  \/ PlannerReturns
  \/ StepBegin
  \/ HandlerCompletes
  \/ Finish

Spec == Init /\ [][Next]_vars

\* the handler awaits the planner call: the enabling condition of
\* PlannerReturns, every step of which leaves this position
AtPlanning == pc = "planning"

\* the for loop stands at a step of the plan: the enabling condition of
\* StepBegin, every step of which responds or invokes the handler and so
\* leaves this position
AtStep == pc = "loop" /\ i < Len(plan.a)

\* The handler under the scheduling of the event loop: its synchronous
\* stretches run to their next await or return, and every awaited model
\* call and tool handler settles (it returns or throws).  Weak fairness of
\* PlannerReturns and of StepBegin is written by its meaning: an action
\* that is enabled exactly at one position, and leaves that position with
\* each of its steps, is taken whenever it stays enabled exactly when the
\* handler does not stay at that position forever.
Fairness ==
  /\ WF_vars(CallRouter)
  /\ WF_vars(RouterReturns)
  /\ []<>(~AtPlanning)
  /\ []<>(~AtStep)
  /\ WF_vars(HandlerCompletes)
  /\ WF_vars(Finish)

SpecFair == Init /\ [][Next]_vars /\ Fairness

\* ------------------------------------------------------------------------
\* sanitizeArgs on its own
\* ------------------------------------------------------------------------
ArgKeyNames == <<"a", "b", "c", "d">>

ArgKeys == {ArgKeyNames[j] : j \in 1..MaxArgKeys}

ArgValues == {Num(1), Str(<<"x">>), Undef}

\* the argument mappings over the keys
ArgMappings == UNION { [ks -> ArgValues] : ks \in SUBSET ArgKeys }

PropertiesOf(ks) == Obj([k \in ks |-> Obj("type" :> Str(<<"string">>))])

\* the shape the tools of this repository have:
\* { type, function: { name, parameters: { type, properties } } }
WrappedDefinition(ks) == ToolDefinition("sampleTool", ks)

\* the shape the README documents for a tool's definition:
\* { name, description, parameters: { type, properties } }
DocumentedDefinition(ks) ==
  Obj(("name" :> Str(<<"sampleTool">>)) @@
      ("description" :> Str(<<"a sample tool">>)) @@
      ("parameters" :> Obj(("type" :> Str(<<"object">>)) @@ ("properties" :> PropertiesOf(ks)))))

\* definitions whose properties cannot be read
MalformedDefinitions ==
  { Undef,
    Obj("function" :> Obj("name" :> Str(<<"sampleTool">>))),
    Obj("function" :> Obj("parameters" :> Obj("type" :> Str(<<"object">>)))),
    Obj("function" :> Obj("parameters" :> Obj("properties" :> Num(1)))) }

SanitizeInputs ==
  { [op |-> "sanitize", shape |-> "wrapped", keys |-> ks, toolDef |-> WrappedDefinition(ks),
     rawArgs |-> Obj(m), done |-> FALSE, out |-> Undef] :
      ks \in SUBSET ArgKeys, m \in ArgMappings }
  \cup
  { [op |-> "sanitize", shape |-> "documented", keys |-> ks,
     toolDef |-> DocumentedDefinition(ks),
     rawArgs |-> Obj(m), done |-> FALSE, out |-> Undef] :
      ks \in SUBSET ArgKeys, m \in ArgMappings }
  \cup
  { [op |-> "sanitize", shape |-> "malformed", keys |-> {}, toolDef |-> d,
     rawArgs |-> Obj(m), done |-> FALSE, out |-> Undef] :
      d \in MalformedDefinitions, m \in ArgMappings }

InitSanitize == HandlerIdle /\ requests = <<>> /\ probe \in SanitizeInputs

Sanitize ==
  /\ ~probe.done
  /\ probe' = [probe EXCEPT !.done = TRUE, !.out = sanitizeArgs(probe.toolDef, probe.rawArgs)]
  /\ UNCHANGED <<pc, assistant, routerResult, plannerResult, plan, i, results, calls,
                 inflight, settled, responses, routerCalls, plannerCalls>>
  /\ UNCHANGED <<requests, registry>>

SpecSanitize == InitSanitize /\ [][Sanitize]_vars

\* ------------------------------------------------------------------------
\* substituteTemplates on its own
\* ------------------------------------------------------------------------
PathNames == {"meetings", "meetingId", "name"}

\* a path segment: a name, or a name with an index suffix
PathSegments ==
  { <<n>> : n \in PathNames }
  \cup { <<n, "[">> \o NumText(k) \o <<"]">> : n \in PathNames, k \in 0..MaxIndex }

\* the paths of up to MaxPathLen segments, as sequences of segments
SegmentLists == UNION { [1..n -> PathSegments] : n \in 1..MaxPathLen }

\* the text of a path: its segments joined by "."
PathText(segs) == JoinWith(segs, <<".">>)

\* "{{prev:0.<path>}}"
TemplateOf(segs) == <<"{{", "prev:", "0", ".">> \o PathText(segs) \o <<"}}">>

\* results a reference may address
ResultValues ==
  { MeetingsResult,
    ErrorResult,
    Obj(("name" :> Str(<<"P", "R">>)) @@ ("meetings" :> Str(<<"n", "o">>))),
    Obj(("meetings" :> Arr(<<>>)) @@ ("meetingId" :> Null)) }

ResolveInputs ==
  { [op |-> "resolve", segs |-> segs, value |-> Str(TemplateOf(segs)), results |-> <<r>>,
     done |-> FALSE, out |-> Undef] :
      segs \in SegmentLists, r \in ResultValues }

InitResolve == HandlerIdle /\ requests = <<>> /\ probe \in ResolveInputs

Resolve ==
  /\ ~probe.done
  /\ probe' = [probe EXCEPT !.done = TRUE,
                            !.out = substituteTemplates(probe.value, probe.results)]
  /\ UNCHANGED <<pc, assistant, routerResult, plannerResult, plan, i, results, calls,
                 inflight, settled, responses, routerCalls, plannerCalls>>
  /\ UNCHANGED <<requests, registry>>

SpecResolve == InitResolve /\ [][Resolve]_vars

\* ------------------------------------------------------------------------
\* substituteTemplates on containers
\* ------------------------------------------------------------------------
\* argument values without structure: plain values, a reference that
\* resolves, references that resolve to undefined, and a string holding a
\* prev: literal that is no reference
ShapeLeaves ==
  { Num(1), Null, Bool(TRUE), Str(<<"plain">>),
    Str(<<"{{", "prev:", "0", ".", "date", "}}">>),
    Str(<<"{{", "prev:", "0", ".", "nope", "}}">>),
    Str(<<"{{", "prev:", "1", ".", "date", "}}">>),
    Str(<<"see", " ", "prev:", "0">>) }

\* argument values one level deep
ShapeNested ==
  ShapeLeaves \cup { Arr(<<Str(<<"{{", "prev:", "0", ".", "date", "}}">>)>>),
                     Obj("date" :> Str(<<"{{", "prev:", "0", ".", "date", "}}">>)),
                     Obj("limit" :> Num(1)) }

\* keys a plan's JSON may give an argument object
ShapeKeys == {"date", "limit", "__proto__"}

ShapeValues ==
  ShapeLeaves
  \cup { Arr(a) : a \in UNION { [1..n -> ShapeNested] : n \in 0..MaxListLen } }
  \cup { Obj(f) : f \in UNION { [ks -> ShapeNested] : ks \in SUBSET ShapeKeys } }

ShapeHistories == { <<>>, <<Obj("date" :> IsoDate)>>, <<ErrorResult>> }

ShapeInputs ==
  { [op |-> "substitute", value |-> v, results |-> h, done |-> FALSE, out |-> Undef,
     again |-> Undef] : v \in ShapeValues, h \in ShapeHistories }

InitShape == HandlerIdle /\ requests = <<>> /\ probe \in ShapeInputs

\* the value is resolved, and the result is resolved once more
Substitute ==
  /\ ~probe.done
  /\ probe' = [probe EXCEPT
                 !.done = TRUE,
                 !.out = substituteTemplates(probe.value, probe.results),
                 !.again = substituteTemplates(
                             substituteTemplates(probe.value, probe.results), probe.results)]
  /\ UNCHANGED <<pc, assistant, routerResult, plannerResult, plan, i, results, calls,
                 inflight, settled, responses, routerCalls, plannerCalls>>
  /\ UNCHANGED <<requests, registry>>

SpecShape == InitShape /\ [][Substitute]_vars

\* ------------------------------------------------------------------------
\* substituteTemplates on strings
\* ------------------------------------------------------------------------
\* text before and after
StringPads == UNION { [1..n -> {"text", " ", "{{", "}}"}] : n \in 0..MaxPadLen }

\* references and near misses
StringBodies ==
  { <<"{{", "prev:", "0", ".", "date", "}}">>,
    <<"{{", " ", "prev:", "0", ".", "date", " ", "}}">>,
    <<"{{", "prev:", "1", ".", "date", "}}">>,
    <<"{{", "prev:", "0", ".", "meetings", "[", "0", "]", ".", "meetingId", "}}">>,
    <<"{{", "prev:", ".", "date", "}}">>,
    <<"{{", "prev:", "0", "date", "}}">>,
    <<"{{", "prev:", "0", ".", "date">>,
    <<"{{", "prev:", "0", ".", "}}">>,
    <<"prev:", "0", ".", "date">>,
    <<"{{", "prev", "0", ".", "date", "}}">>,
    <<>> }

StringHistories == { <<>>, <<Obj("date" :> IsoDate)>>, <<MeetingsResult>> }

StringInputs ==
  { [op |-> "string", value |-> Str(a \o b \o c), results |-> h, done |-> FALSE,
     out |-> Undef] :
      a \in StringPads, b \in StringBodies, c \in StringPads, h \in StringHistories }

InitString == HandlerIdle /\ requests = <<>> /\ probe \in StringInputs

SubstituteInString ==
  /\ ~probe.done
  /\ probe' = [probe EXCEPT !.done = TRUE,
                            !.out = substituteTemplates(probe.value, probe.results)]
  /\ UNCHANGED <<pc, assistant, routerResult, plannerResult, plan, i, results, calls,
                 inflight, settled, responses, routerCalls, plannerCalls>>
  /\ UNCHANGED <<requests, registry>>

SpecString == InitString /\ [][SubstituteInString]_vars

\* ------------------------------------------------------------------------
\* extractJsonArray on its own
\* ------------------------------------------------------------------------
TextTokens ==
  { Tok("["), Tok("]"), Tok(","), Tok(" "), Tok("prose"), Tok("{k:"), Tok("}"),
    ValTok(Num(1)) }

Texts == UNION { [1..n -> TextTokens] : n \in 0..MaxTextLen }

NormalizeInputs ==
  { [op |-> "normalize", content |-> c, done |-> FALSE, out |-> Undef] : c \in Texts }

InitNormalize == HandlerIdle /\ requests = <<>> /\ probe \in NormalizeInputs

Normalize ==
  /\ ~probe.done
  /\ probe' = [probe EXCEPT !.done = TRUE, !.out = extractJsonArray(probe.content)]
  /\ UNCHANGED <<pc, assistant, routerResult, plannerResult, plan, i, results, calls,
                 inflight, settled, responses, routerCalls, plannerCalls>>
  /\ UNCHANGED <<requests, registry>>

SpecNormalize == InitNormalize /\ [][Normalize]_vars

\* ------------------------------------------------------------------------
\* extractJsonArray on re-stringified plans
\* ------------------------------------------------------------------------
\* elements of the arrays a model may send
PlanElements ==
  { Num(1), StepNoArgs(<<"getCurrentDate">>),
    Step(<<"getDayOfWeek">>, Obj("date" :> DateRef(0))) }

PlanArrays == UNION { [1..n -> PlanElements] : n \in 0..MaxListLen }

\* the JSON text of an array of elements
ArrayText(es) ==
  <<Tok("[")>> \o JoinWith([j \in 1..Len(es) |-> <<ValTok(es[j])>>], <<Tok(",")>>)
    \o <<Tok("]")>>

\* JSON.stringify of a text: the text between quotes, its quotes escaped
Stringified(text) ==
  <<Tok("\"")>>
    \o [j \in 1..Len(text) |-> IF HasRawQuote(text[j]) THEN EscTok(text[j].v) ELSE text[j]]
    \o <<Tok("\"")>>

\* model outputs: an array as it is, re-stringified once, and the latter
\* within blanks, prose or a fence; and re-stringified texts that are no
\* array
DoubleInputs ==
  { [op |-> "double", kind |-> "plain", inner |-> Arr(es), content |-> ArrayText(es),
     done |-> FALSE, out |-> Undef] : es \in PlanArrays }
  \cup
  { [op |-> "double", kind |-> "double", inner |-> Arr(es),
     content |-> Stringified(ArrayText(es)), done |-> FALSE, out |-> Undef] :
      es \in PlanArrays }
  \cup
  { [op |-> "double", kind |-> "padded", inner |-> Arr(es),
     content |-> <<Tok(" ")>> \o Stringified(ArrayText(es)) \o <<Tok("\n")>>,
     done |-> FALSE, out |-> Undef] : es \in PlanArrays }
  \cup
  { [op |-> "double", kind |-> "wrapped", inner |-> Arr(es),
     content |-> <<Tok("prose"), Tok(" ")>> \o Stringified(ArrayText(es)),
     done |-> FALSE, out |-> Undef] : es \in PlanArrays }
  \cup
  { [op |-> "double", kind |-> "other", inner |-> e,
     content |-> Stringified(<<ValTok(e)>>), done |-> FALSE, out |-> Undef] :
      e \in PlanElements }

InitDouble == HandlerIdle /\ requests = <<>> /\ probe \in DoubleInputs

NormalizeDouble ==
  /\ ~probe.done
  /\ probe' = [probe EXCEPT !.done = TRUE, !.out = extractJsonArray(probe.content)]
  /\ UNCHANGED <<pc, assistant, routerResult, plannerResult, plan, i, results, calls,
                 inflight, settled, responses, routerCalls, plannerCalls>>
  /\ UNCHANGED <<requests, registry>>

SpecDouble == InitDouble /\ [][NormalizeDouble]_vars

\* ------------------------------------------------------------------------
\* stringifyToolResult on its own
\* ------------------------------------------------------------------------
\* results without structure
FormatLeaves ==
  { Undef, Null, Bool(TRUE), Bool(FALSE), Num(1), Num(12), Str(<<>>), Str(<<"Monday">>) }

\* the items of a meetings list
MeetingItems ==
  { Obj(("name" :> Str(<<"Project Review">>)) @@ ("id" :> Str(<<"m1">>))),
    Obj("name" :> Str(<<"Standup">>)),
    Num(1),
    Null }

FormatArrays ==
  UNION { [1..n -> FormatLeaves \cup {Arr(<<Num(1), Num(2)>>)}] : n \in 0..MaxListLen }

MeetingLists == UNION { [1..n -> MeetingItems] : n \in 0..MaxListLen }

FormatObjects ==
  { Obj("day" :> v) : v \in FormatLeaves }
  \cup { Obj("date" :> v) : v \in FormatLeaves }
  \cup { Obj(("day" :> Str(<<"Monday">>)) @@ ("date" :> v)) : v \in FormatLeaves }
  \cup { Obj(("date" :> IsoDate) @@ ("meetings" :> Arr(ms))) : ms \in MeetingLists }
  \cup { Obj("meetings" :> Arr(ms)) : ms \in MeetingLists }
  \cup { Obj("meetings" :> v) : v \in FormatLeaves }
  \cup { Obj(("error" :> Str(<<"Failed to fetch meetings.">>)) @@ ("details" :> v)) :
            v \in FormatLeaves }
  \cup { EmptyObj, ErrorResult, MeetingsResult }

FormatValues == FormatLeaves \cup { Arr(a) : a \in FormatArrays } \cup FormatObjects

FormatInputs ==
  { [op |-> "format", value |-> v, done |-> FALSE, out |-> <<>>] : v \in FormatValues }

InitFormat == HandlerIdle /\ requests = <<>> /\ probe \in FormatInputs

Format ==
  /\ ~probe.done
  /\ probe' = [probe EXCEPT !.done = TRUE, !.out = stringifyToolResult(probe.value)]
  /\ UNCHANGED <<pc, assistant, routerResult, plannerResult, plan, i, results, calls,
                 inflight, settled, responses, routerCalls, plannerCalls>>
  /\ UNCHANGED <<requests, registry>>

SpecFormat == InitFormat /\ [][Format]_vars

\* ------------------------------------------------------------------------
\* Two requests handled side by side
\* ------------------------------------------------------------------------
\* Node runs the calls of the handler on one thread: a call runs from one
\* await to the next without interruption, and while it awaits a model call
\* or a tool's handler the other call may run.  What the handler declares
\* with const and let is local to the call.
Requests == {1, 2}

\* the local variables of a call of the handler before its first statement
RequestIdle ==
  [pc |-> "start", assistant |-> "", plan |-> Null, i |-> 0, results |-> <<>>,
   calls |-> <<>>, settled |-> <<>>, responses |-> <<>>]

\* the variables of the handler that runs on its own
handlerVars ==
  <<pc, assistant, routerResult, plannerResult, plan, i, results, calls, inflight,
    settled, responses, routerCalls, plannerCalls, probe>>

\* plans of the side-by-side requests: with and without references to
\* earlier results
ConcurrentPlans ==
  { <<>>,
    <<StepNoArgs(<<"fetchMeetings">>)>>,
    <<StepNoArgs(<<"fetchMeetings">>),
      Step(<<"fetchMeetingDetails">>, Obj("meetingId" :> MeetingIdRef))>>,
    <<Step(<<"getCurrentDate">>, Obj(("offset" :> Num(2)) @@ ("bogus" :> Num(1)))),
      Step(<<"getDayOfWeek">>, Obj("date" :> DateRef(0)))>>,
    <<Step(<<"getDayOfWeek">>, Obj("date" :> DateRef(0)))>>,
    <<Step(<<"fetchMeetingDetails">>, Obj("meetingId" :> MeetingIdRef))>> }

\* the ways their planner calls may end
ConcurrentPlannerOutcomes ==
  { requestPlanFromModel(r) :
      r \in { [kind |-> "content", content |-> PlanText(steps)] : steps \in ConcurrentPlans }
            \cup { [kind |-> "non2xx", content |-> <<>>] } }

\* the ways their router calls may end
ConcurrentRouterResponses ==
  { [kind |-> "rejects", json |-> FALSE, name |-> ""],
    [kind |-> "content", json |-> TRUE, name |-> "dateAssistant"],
    [kind |-> "content", json |-> TRUE, name |-> "meetingAssistant"] }

InitConcurrent ==
  /\ HandlerIdle
  /\ probe = <<>>
  /\ requests = [r \in Requests |-> RequestIdle]

\* reg[name] || reg.dateAssistant
AssistantIn(reg, name) ==
  IF Truthy(GetKey(reg, name)) THEN GetKey(reg, name) ELSE GetKey(reg, "dateAssistant")

\* res.status(status).json/send(content) in the call req; the call returns
RespondIn(req, status, content) ==
  [req EXCEPT !.responses = Append(@, [status |-> status, content |-> content]),
              !.pc = "done"]

\* a history kept in one array of the module for every call
ResultsOfFirstRequest(reqs, r) == reqs[1].results

\* the array the identifier results denotes in the call r: the one this
\* call created with const results = []
ResultsOf(reqs, r) == reqs[r].results

\* the call r reads the request and awaits the router call
CallRouterOf(r) ==
  /\ requests[r].pc = "start"
  /\ \E wellFormed \in BOOLEAN :
       requests' = [requests EXCEPT ![r] =
                      IF wellFormed THEN [@ EXCEPT !.pc = "routing"]
                      ELSE RespondIn(@, 500, ServerError)]
  /\ UNCHANGED <<handlerVars, registry>>

\* the router call of r returns; the planner call is awaited
RouterReturnsOf(r) ==
  /\ requests[r].pc = "routing"
  /\ \E resp \in ConcurrentRouterResponses :
       LET name == selectAssistantFromModel(resp)
           req == [requests[r] EXCEPT !.assistant = name]
       IN  requests' = [requests EXCEPT ![r] =
                          IF AssistantIn(registry, name).t = "object"
                          THEN [req EXCEPT !.pc = "planning"]
                          ELSE RespondIn(req, 500, ServerError)]
  /\ UNCHANGED <<handlerVars, registry>>

\* the planner call of r returns
PlannerReturnsOf(r) ==
  /\ requests[r].pc = "planning"
  /\ \E planOrErr \in ConcurrentPlannerOutcomes :
       requests' = [requests EXCEPT ![r] =
         CASE planOrErr.kind = "throw" -> RespondIn(@, 500, ServerError)
           [] planOrErr.kind = "value" /\ ~Truthy(planOrErr.v) ->
                RespondIn(@, 200, NoPlanMessage)
           [] planOrErr.kind = "value" /\ Truthy(planOrErr.v)
                /\ HasKey(planOrErr.v, "error") ->
                RespondIn(@, 200, StringOf(GetKey(planOrErr.v, "error")))
           [] OTHER -> [@ EXCEPT !.plan = planOrErr.v, !.pc = "loop"]]
  /\ UNCHANGED <<handlerVars, registry>>

\* one iteration of the for loop of r up to the await of the tool's handler
StepBeginOf(r) ==
  /\ requests[r].pc = "loop"
  /\ requests[r].i < Len(requests[r].plan.a)
  /\ LET req == requests[r]
         step == req.plan.a[req.i + 1]
         tool == OptGet(step, <<"tool">>)
         toolName == StripPrefix(tool.s)
         toolEntry == LookupTool(AssistantIn(registry, req.assistant), toolName)
         rawArgs == IF Truthy(GetProp(step, <<"args">>))
                    THEN substituteTemplates(GetProp(step, <<"args">>),
                                             ResultsOf(requests, r))
                    ELSE EmptyObj
         args == sanitizeArgs(OptGet(toolEntry, <<"definition">>), rawArgs)
         handler == OptGet(toolEntry, <<"handler">>)
     IN  requests' = [requests EXCEPT ![r] =
           IF step.t \in {"undefined", "null"} \/ tool.t # "string"
           THEN RespondIn(req, 500, ServerError)
           ELSE IF IsSentinel(toolName) THEN RespondIn(req, 200, RefusalMessage)
           ELSE IF ~Truthy(toolEntry) THEN RespondIn(req, 200, NotFoundMessage(tool.s))
           ELSE IF handler.t # "function" THEN RespondIn(req, 500, ServerError)
           ELSE [req EXCEPT
                   !.calls = Append(@, [step |-> req.i, tool |-> handler.f, args |-> args]),
                   !.pc = "invoking"]]
  /\ UNCHANGED <<handlerVars, registry>>

\* the handler awaited by r settles
HandlerCompletesOf(r) ==
  /\ requests[r].pc = "invoking"
  /\ LET req == requests[r]
         call == req.calls[Len(req.calls)]
     IN  \E o \in HandlerOutcomes(call.tool, call.args) :
           requests' = [requests EXCEPT ![r] =
             IF AwaitThrows(o)
             THEN RespondIn([req EXCEPT !.settled = Append(@, o)], 500, ServerError)
             ELSE [req EXCEPT !.settled = Append(@, o),
                              !.results = Push(@, o.v),
                              !.i = NextIndex(@),
                              !.pc = "loop"]]
  /\ UNCHANGED <<handlerVars, registry>>

\* after the loop of r: its last result is formatted and sent
FinishOf(r) ==
  /\ requests[r].pc = "loop"
  /\ requests[r].i = Len(requests[r].plan.a)
  /\ requests' = [requests EXCEPT ![r] =
                    RespondIn(@, 200, stringifyToolResult(last(@.results)))]
  /\ UNCHANGED <<handlerVars, registry>>

NextConcurrent ==
  \E r \in Requests :
    \/ CallRouterOf(r)
    \/ RouterReturnsOf(r)
    \/ PlannerReturnsOf(r)
    \/ StepBeginOf(r)
    \/ HandlerCompletesOf(r)
    \/ FinishOf(r)

SpecConcurrent == InitConcurrent /\ [][NextConcurrent]_vars

\* ------------------------------------------------------------------------
\* Properties of the request handler
\* ------------------------------------------------------------------------
Done == pc = "done"

HasPlan == plan.t = "array"

\* the tool name of step j (zero-based) as written, and without its prefix
StepTool(j) == plan.a[j + 1].o["tool"].s

StepToolName(j) ==
  IF StepTool(j)[1] = "functions." THEN Tail(StepTool(j)) ELSE StepTool(j)

\* step j names a key of the active assistant's tool registry
Registered(j) == Join(StepToolName(j)) \in DOMAIN assistants.o[assistant].o

\* step j names the reserved sentinel
Sentinel(j) == Join(StepToolName(j)) = "TOOL_NOT_AVAILABLE"

\* step j names neither the sentinel nor a registered tool
Unknown(j) == ~Sentinel(j) /\ ~Registered(j)

\* an awaited handler threw
HandlerThrew == \E j \in 1..Len(settled) : settled[j].kind = "throw"

\* every step before step k names a registered tool
AllRegisteredBefore(k) == \A j \in 0..(k - 1) : Registered(j)

\* the one response of a finished request
OnlyResponse(status, content) ==
  responses = <<[status |-> status, content |-> content]>>

\* field k of a result, undefined when the result has no such field
FieldOf(v, k) == IF v.t = "object" /\ k \in DOMAIN v.o THEN v.o[k] ELSE Undef

\* step j (one-based in the plan) is the getDayOfWeek step that refers to
\* the date of result n
IsDateRefStep(j, n) == plan.a[j] = Step(<<"getDayOfWeek">>, Obj("date" :> DateRef(n)))

\* C1: the handlers are invoked one at a time, in plan order, each once:
\* at most one invocation is awaited, an invocation is started only when
\* all earlier ones have been recorded in the history, the j-th invocation
\* is that of step j's tool, and a plan of registered tools whose handlers
\* all return ends with exactly one invocation per step.
C1_OneAtATimeInPlanOrder ==
  /\ inflight \in {0, 1}
  /\ (~HandlerThrew => Len(calls) = Len(results) + inflight)
  /\ \A j \in 1..Len(calls) :
       calls[j].step = j - 1 /\ calls[j].tool = Join(StepToolName(j - 1))
  /\ (Done /\ HasPlan /\ AllRegisteredBefore(Len(plan.a)) /\ ~HandlerThrew
        => Len(calls) = Len(plan.a) /\ Len(results) = Len(plan.a))

C1_Witness ==
  /\ Done /\ HasPlan /\ Len(plan.a) >= 3
  /\ AllRegisteredBefore(Len(plan.a)) /\ ~HandlerThrew
  /\ Len(calls) = Len(plan.a)

\* C2: the handler of a step i whose argument is {{prev:N.date}} receives
\* the date field of the result of step N when N < i and undefined when
\* N >= i.
C2_ReferenceSeesOnlyEarlierResults ==
  \A j \in 1..Len(calls) : \A n \in 0..(MaxPlanLen - 1) :
    IsDateRefStep(j, n) =>
      calls[j].args = Obj("date" :> (IF n < j - 1 THEN FieldOf(results[n + 1], "date")
                                     ELSE Undef))

C2_Witness ==
  \E j, k \in 1..Len(calls) : \E n, m \in 0..(MaxPlanLen - 1) :
    /\ IsDateRefStep(j, n) /\ n < j - 1 /\ calls[j].args = Obj("date" :> IsoDate)
    /\ IsDateRefStep(k, m) /\ m >= k - 1 /\ calls[k].args = Obj("date" :> Undef)

\* C3 as stated: a plan that holds the sentinel at any position ends with
\* the refusal message and no handler has been invoked.
C3_SentinelAnywhereInvokesNothing ==
  (Done /\ HasPlan /\ \E k \in 0..(Len(plan.a) - 1) : Sentinel(k))
    => OnlyResponse(200, RefusalMessage) /\ calls = <<>>

\* C3 amended: when step k is the sentinel, no handler of step k or of a
\* later step is ever invoked; and when the steps before it name
\* registered tools and their handlers return, the request ends with the
\* refusal message after exactly the k handlers of the earlier steps have
\* been invoked.
C3_SentinelStopsAtItsStep ==
  HasPlan =>
    \A k \in 0..(Len(plan.a) - 1) :
      Sentinel(k) =>
        /\ Len(calls) <= k
        /\ (Done /\ AllRegisteredBefore(k) /\ ~HandlerThrew)
             => OnlyResponse(200, RefusalMessage) /\ Len(calls) = k /\ Len(results) = k

C3_Witness ==
  /\ Done /\ HasPlan
  /\ \E k \in 1..(Len(plan.a) - 1) : Sentinel(k) /\ AllRegisteredBefore(k) /\ Len(calls) = k
  /\ OnlyResponse(200, RefusalMessage)

\* C4: at the first step k that names the sentinel or a tool that is no key
\* of the registry, the request ends with HTTP 200 and the refusal or the
\* "not found" message naming the tool, and no handler of step k or later
\* is invoked.
C4_FailFastAbort ==
  (Done /\ HasPlan) =>
    \A k \in 0..(Len(plan.a) - 1) :
      ((Sentinel(k) \/ Unknown(k)) /\ AllRegisteredBefore(k) /\ ~HandlerThrew)
        => /\ OnlyResponse(200, IF Sentinel(k) THEN RefusalMessage
                                ELSE NotFoundMessage(StepTool(k)))
           /\ Len(calls) = k

\* the JSON text of an object whose one field is error
ErrorText(v) == <<"{", "\"", "error", "\"", ":", "\"">> \o v.o["error"].s \o <<"\"", "}">>

\* C5: an error-shaped value a handler returns at step j is entry j of the
\* history; the next step, when it names a registered tool, is still
\* invoked; a later reference into a field the value lacks gives undefined;
\* and when it is the last step's result the response is its JSON text.
C5_ErrorValueIsRecorded ==
  \A j \in 1..Len(settled) :
    (settled[j].kind = "return" /\ ErrorShaped(settled[j].v)) =>
      /\ Len(results) >= j /\ results[j] = settled[j].v
      /\ (Done /\ j < Len(plan.a) /\ Registered(j) => Len(calls) >= j + 1)
      /\ \A c \in 1..Len(calls) :
           (j = 1 /\ c > 1
              /\ plan.a[c] = Step(<<"fetchMeetingDetails">>, Obj("meetingId" :> MeetingIdRef)))
             => calls[c].args = Obj("meetingId" :> Undef)
      /\ (Done /\ j = Len(plan.a) => OnlyResponse(200, ErrorText(settled[j].v)))

C5_Witness ==
  /\ Done /\ Len(settled) = 3
  /\ ErrorShaped(settled[1].v)
  /\ calls[2].args = Obj("meetingId" :> Undef)
  /\ ErrorShaped(settled[3].v)
  /\ OnlyResponse(200, ErrorText(settled[3].v))

\* C6: a handler that throws at step k ends the request with HTTP 500, with
\* no later invocation and no second invocation of that handler; a parse
\* failure and an unknown tool end it with HTTP 200.
C6_ThrowIs500OthersAre200 ==
  /\ \A j \in 1..Len(settled) :
       settled[j].kind = "throw" => Done /\ OnlyResponse(500, ServerError) /\ Len(calls) = j
  /\ (Done /\ plannerResult = "parseFailure" => OnlyResponse(200, ParseFailureMessage))
  /\ (Done /\ HasPlan) =>
       \A k \in 0..(Len(plan.a) - 1) :
         (Unknown(k) /\ AllRegisteredBefore(k) /\ ~HandlerThrew)
           => Len(responses) = 1 /\ responses[1].status = 200

\* the fixed messages the handler sends with HTTP 200 before any step runs
Apologies == {NoPlanMessage, PlannerErrorMessage, ParseFailureMessage}

\* C7 as stated: a router call or planner call that fails (non-2xx status
\* or unparsable body) ends the request with an apology, invokes no handler
\* and is not repeated.
C7_ModelFailureEndsWithApology ==
  (Done /\ (routerResult = "failed" \/ plannerResult \in {"non2xx", "badBody"}))
    => /\ Len(responses) = 1 /\ responses[1].status = 200
       /\ responses[1].content \in Apologies
       /\ calls = <<>>
       /\ routerCalls <= 1 /\ plannerCalls <= 1

\* C7 amended: neither model call is made twice; a failed router call
\* selects the date assistant and the request goes on to the planner call;
\* a non-2xx planner call ends the request with HTTP 200 and the planner
\* error message, a rejected or unparsable one with HTTP 500, both without
\* any handler invocation.
C7_ModelFailureHandling ==
  /\ routerCalls <= 1 /\ plannerCalls <= 1
  /\ (routerResult = "failed" => assistant = "dateAssistant" /\ plannerCalls = 1)
  /\ (plannerResult = "non2xx"
        => Done /\ OnlyResponse(200, PlannerErrorMessage) /\ calls = <<>>)
  /\ (plannerResult \in {"rejects", "badBody"}
        => Done /\ OnlyResponse(500, ServerError) /\ calls = <<>>)

C7_Witness ==
  /\ Done /\ routerResult = "failed" /\ plannerResult = "non2xx"
  /\ OnlyResponse(200, PlannerErrorMessage)

\* ------------------------------------------------------------------------
\* Properties of sanitizeArgs
\* ------------------------------------------------------------------------
\* C8: for a definition of the documented shape { name, description,
\* parameters: { properties: P } } the sanitized mapping is the argument
\* mapping restricted to the keys of P, values unchanged.
C8_AllowListOfDocumentedShape ==
  (probe.done /\ probe.shape = "documented") =>
    probe.out = Obj([k \in (DOMAIN probe.rawArgs.o) \cap probe.keys |-> probe.rawArgs.o[k]])

\* ------------------------------------------------------------------------
\* Properties of substituteTemplates
\* ------------------------------------------------------------------------
\* one segment of the walk as the claim describes it: read property name,
\* then, for name[k], element k of it when it is an array that has one
WalkSegment(acc, seg) ==
  LET v == FieldOf(acc, seg[1])
      k == ParseInt(SubSeq(seg, 3, Len(seg) - 1))
  IN  IF Len(seg) = 1 THEN v
      ELSE IF v.t = "array" /\ k < Len(v.a) THEN v.a[k + 1]
      ELSE Undef

RECURSIVE WalkPath(_, _)
WalkPath(acc, segs) ==
  IF segs = <<>> THEN acc ELSE WalkPath(WalkSegment(acc, Head(segs)), Tail(segs))

\* C9: {{prev:0.path}} resolves to the value the walk of path addresses in
\* history[0], and to undefined when a property is missing, the target of
\* an index suffix is not an array, or the index is out of bounds.
C9_PathWalk ==
  probe.done => probe.out = WalkPath(probe.results[1], probe.segs)

\* ------------------------------------------------------------------------
\* Properties of extractJsonArray
\* ------------------------------------------------------------------------
Spaces(k) == [j \in 1..k |-> Tok(" ")]

\* the texts of S with blanks before and after, of at most n tokens
Padded(S, n) ==
  { [text |-> Spaces(x[2]) \o x[1].text \o Spaces(x[3]), v |-> x[1].v] :
      x \in { y \in S \X (0..n) \X (0..n) : Len(y[1].text) + y[2] + y[3] <= n } }

\* the JSON grammar as a generator: JsonCore(n) is the set of the JSON
\* texts of at most n tokens without outer blanks, each with its value;
\* JsonLists(n) is the set of the comma-separated element lists
RECURSIVE JsonCore(_)
RECURSIVE JsonLists(_)
JsonCore(n) ==
  IF n < 1 THEN {}
  ELSE { [text |-> <<ValTok(Num(1))>>, v |-> Num(1)] }
       \cup { [text |-> <<Tok("[")>> \o Spaces(k) \o <<Tok("]")>>, v |-> Arr(<<>>)] :
                k \in 0..(n - 2) }
       \cup { [text |-> <<Tok("[")>> \o l.text \o <<Tok("]")>>, v |-> Arr(l.v)] :
                l \in JsonLists(n - 2) }
       \cup { [text |-> <<Tok("{k:")>> \o g.text \o <<Tok("}")>>, v |-> Obj("k" :> g.v)] :
                g \in Padded(JsonCore(n - 2), n - 2) }

JsonLists(n) ==
  IF n < 1 THEN {}
  ELSE { [text |-> g.text, v |-> <<g.v>>] : g \in Padded(JsonCore(n), n) }
       \cup { [text |-> x[1].text \o <<Tok(",")>> \o x[2].text, v |-> <<x[1].v>> \o x[2].v] :
                x \in { y \in Padded(JsonCore(n - 2), n - 2) \X JsonLists(n - 2) :
                          Len(y[1].text) + 1 + Len(y[2].text) <= n } }

\* the texts of at most MaxTextLen tokens that are JSON arrays
ArrayTexts == { g \in Padded(JsonCore(MaxTextLen), MaxTextLen) : g.v.t = "array" }

IsArrayText(text) == \E g \in ArrayTexts : g.text = text

ArrayOf(text) == (CHOOSE g \in ArrayTexts : g.text = text).v

IsBracket(tok) == tok.c \in {"[", "]"}

\* the tokens from the first "[" to the last "]" (empty when there are none)
OuterSpan(text) ==
  LET a == CHOOSE p \in 1..(Len(text) + 1) :
             /\ (p <= Len(text) => text[p].c = "[")
             /\ \A q \in 1..(p - 1) : text[q].c # "["
      b == CHOOSE p \in 0..Len(text) :
             /\ (p >= 1 => text[p].c = "]")
             /\ \A q \in (p + 1)..Len(text) : text[q].c # "]"
  IN  SubSeq(text, a, b)

\* C10: a text that is a JSON array gives that array; otherwise the span
\* from the first "[" to the last "]" gives its array when it is a JSON
\* array; otherwise the result is null (a parse failure).  So an array
\* with no bracket outside it is found whatever else surrounds it.
C10_NormalizationByPriority ==
  probe.done =>
    /\ probe.out = (IF IsArrayText(probe.content) THEN ArrayOf(probe.content)
                    ELSE IF IsArrayText(OuterSpan(probe.content))
                    THEN ArrayOf(OuterSpan(probe.content))
                    ELSE Null)
    /\ \A a \in 1..Len(probe.content) : \A b \in a..Len(probe.content) :
         ( /\ IsArrayText(SubSeq(probe.content, a, b))
           /\ probe.content[a].c = "[" /\ probe.content[b].c = "]"
           /\ \A q \in 1..Len(probe.content) :
                (q < a \/ q > b) => ~IsBracket(probe.content[q]) )
           => probe.out = ArrayOf(SubSeq(probe.content, a, b))

C10_Witness ==
  /\ probe.done
  /\ probe.content = <<Tok("prose"), Tok("["), ValTok(Num(1)), Tok("]")>>
  /\ probe.out = Arr(<<Num(1)>>)

\* ------------------------------------------------------------------------
\* Properties of the request handler, continued
\* ------------------------------------------------------------------------
\* C11: when the planner's text cannot be normalized to an array the
\* request has ended, with HTTP 200 and the fixed parse-failure message,
\* no handler has been invoked and the planner was called once.
C11_ParseFailureIsTerminal ==
  plannerResult = "parseFailure" =>
    /\ Done
    /\ OnlyResponse(200, ParseFailureMessage)
    /\ calls = <<>> /\ inflight = 0 /\ results = <<>>
    /\ plannerCalls = 1

C11_Witness ==
  /\ Done /\ plannerResult = "parseFailure"
  /\ OnlyResponse(200, ParseFailureMessage)
  /\ calls = <<>> /\ plannerCalls = 1

\* ------------------------------------------------------------------------
\* Properties of stringifyToolResult
\* ------------------------------------------------------------------------
\* the text of a field's value
FieldText(v) ==
  CASE v.t = "string" -> v.s
    [] v.t = "number" -> NumText(v.n)
    [] v.t = "boolean" -> IF v.b THEN <<"true">> ELSE <<"false">>
    [] v.t = "null" -> <<"null">>
    [] OTHER -> <<"undefined">>

\* line i of the numbered list, built from the item's name and id
ListLine(m, n) ==
  NumText(n) \o <<".", " ">> \o FieldText(FieldOf(m, "name")) \o <<" ", "(id:", " ">>
    \o FieldText(FieldOf(m, "id")) \o <<")">>

\* the formatter's rules in their priority order
RECURSIVE FormatByRules(_)
FormatByRules(v) ==
  CASE v.t \in {"null", "undefined"} -> <<>>
    [] v.t = "string" -> v.s
    [] v.t \in {"number", "boolean"} -> FieldText(v)
    [] v.t = "array" ->
         JoinWith([j \in 1..Len(v.a) |-> FormatByRules(v.a[j])], <<",", " ">>)
    [] OTHER ->
         IF "day" \in DOMAIN v.o THEN FieldText(v.o["day"])
         ELSE IF "date" \in DOMAIN v.o THEN FieldText(v.o["date"])
         ELSE IF "meetings" \in DOMAIN v.o /\ v.o["meetings"].t = "array"
         THEN <<"Meetings:", "\n">>
                \o JoinWith([j \in 1..Len(v.o["meetings"].a) |->
                               ListLine(v.o["meetings"].a[j], j)], <<"\n">>)
         ELSE JsonStringify(v)

\* C12: the formatter gives, for every value, the text its rules give in
\* their fixed priority: empty, the string itself, the literal text, the
\* elements joined by ", ", the day, the date, the numbered list of the
\* meetings, or the JSON text.
C12_FormatterRules ==
  probe.done => probe.out = FormatByRules(probe.value)

\* ------------------------------------------------------------------------
\* Properties of substituteTemplates on containers
\* ------------------------------------------------------------------------
\* the value holds no string that matches the reference pattern
RECURSIVE TokenFree(_)
TokenFree(v) ==
  CASE v.t = "string" -> ~MatchTemplate(v.s).ok
    [] v.t = "array" -> \A j \in 1..Len(v.a) : TokenFree(v.a[j])
    [] v.t = "object" -> \A k \in DOMAIN v.o : TokenFree(v.o[k])
    [] OTHER -> TRUE

\* C13: resolving an array gives an array of the same length, resolving an
\* object gives an object with exactly the same keys, each element or
\* value being the resolution of the corresponding one; a value without
\* reference tokens resolves to an equal value, and resolving the result
\* again changes nothing.
C13_ShapePreserved ==
  probe.done =>
    /\ probe.value.t = "array" =>
         /\ probe.out.t = "array" /\ Len(probe.out.a) = Len(probe.value.a)
         /\ \A j \in 1..Len(probe.value.a) :
              probe.out.a[j] = substituteTemplates(probe.value.a[j], probe.results)
    /\ probe.value.t = "object" =>
         /\ probe.out.t = "object" /\ DOMAIN probe.out.o = DOMAIN probe.value.o
         /\ \A k \in DOMAIN probe.value.o :
              probe.out.o[k] = substituteTemplates(probe.value.o[k], probe.results)
    /\ TokenFree(probe.value) => probe.out = probe.value /\ probe.again = probe.out

\* the handlers that have returned, in order
Returned == SelectSeq(settled, LAMBDA o : o.kind = "return")

\* C14: the history is empty until the loop starts; it changes only when an
\* awaited handler returns, and then by one entry added at its end, the
\* entries before it unchanged; at every point it holds exactly the
\* results of the handlers that have returned, entry j being the result
\* of step j, also after the request was aborted.
C14_HistoryAppendOnly ==
  /\ [](pc \in {"start", "routing", "planning"} => results = <<>>)
  /\ [](/\ Len(results) = Len(Returned)
        /\ \A j \in 1..Len(results) :
             results[j] = Returned[j].v /\ calls[j].step = j - 1)
  /\ [][\/ results' = results
        \/ /\ pc = "invoking"
           /\ Len(settled') = Len(settled) + 1
           /\ settled'[Len(settled')].kind = "return"
           /\ results' = Append(results, settled'[Len(settled')].v)]_vars

C14_Witness ==
  /\ Done /\ HasPlan /\ Len(plan.a) = 3
  /\ Len(results) = 2 /\ results[1] = settled[1].v /\ results[2] = settled[2].v
  /\ \/ OnlyResponse(200, RefusalMessage)
     \/ OnlyResponse(500, ServerError)

\* step k (zero-based) is a registered step with one argument, under key,
\* that is a reference which the history of the steps before k resolves to
\* undefined: its index is k or later, or the result it names lacks the
\* field
RefUndefined(k, key) ==
  /\ k < Len(plan.a) /\ Registered(k) /\ Len(results) >= k
  /\ \/ /\ key = "date"
        /\ \E n \in 0..(MaxPlanLen - 1) :
             /\ IsDateRefStep(k + 1, n)
             /\ (n >= k \/ FieldOf(results[n + 1], "date") = Undef)
     \/ /\ key = "meetingId"
        /\ plan.a[k + 1] = Step(<<"fetchMeetingDetails">>, Obj("meetingId" :> MeetingIdRef))
        /\ (k = 0 \/ FieldOf(results[1], "meetings") = Undef)

\* the loop has gone past the start of step k
Begun(k) == pc = "invoking" \/ pc = "done" \/ i > k

\* C15: a step whose reference resolves to undefined is not aborted: once
\* the loop has reached it its handler is invoked with the key present and
\* undefined as its value; the result the handler returns is recorded; and
\* the next step, when it names a registered tool, is invoked too.
C15_UndefinedReferenceStillRuns ==
  HasPlan =>
    \A k \in 0..(Len(plan.a) - 1) : \A key \in {"date", "meetingId"} :
      (RefUndefined(k, key) /\ Begun(k)) =>
        /\ Len(calls) >= k + 1
        /\ calls[k + 1].step = k
        /\ calls[k + 1].args = Obj(key :> Undef)
        /\ (Len(settled) >= k + 1 /\ settled[k + 1].kind = "return")
             => /\ Len(results) >= k + 1 /\ results[k + 1] = settled[k + 1].v
                /\ (Done /\ k + 1 < Len(plan.a) /\ Registered(k + 1))
                     => Len(calls) >= k + 2

C15_Witness ==
  /\ Done /\ HasPlan /\ Len(plan.a) = 3
  /\ RefUndefined(1, "date")
  /\ calls[2].args = Obj("date" :> Undef)
  /\ Len(results) = 3 /\ Len(calls) = 3

\* ------------------------------------------------------------------------
\* Properties of sanitizeArgs, continued
\* ------------------------------------------------------------------------
\* C16: for a definition whose properties cannot be read (definition
\* missing, no parameters object, properties absent or not a mapping) the
\* sanitizer returns the arguments it was given, unchanged.
C16_MalformedSchemaKeepsArguments ==
  (probe.done /\ probe.shape = "malformed") => probe.out = probe.rawArgs

\* ------------------------------------------------------------------------
\* Properties of substituteTemplates on strings
\* ------------------------------------------------------------------------
\* the spans <<p, q>> of s that are a reference token: "{{", blanks,
\* "prev:", digits, ".", a path that is not empty, and the first "}}"
\* after the path's first lexeme
TokenSpans(s) ==
  { sp \in (1..Len(s)) \X (1..Len(s)) :
      \E x \in (sp[1] + 1)..Len(s) : \E y \in (x + 2)..Len(s) :
        /\ s[sp[1]] = "{{"
        /\ \A j \in (sp[1] + 1)..(x - 1) : s[j] \in {" ", "\n"}
        /\ s[x] = "prev:"
        /\ \A j \in (x + 1)..(y - 1) : s[j] \in {"0", "1", "2", "3", "4", "5", "6", "7", "8", "9"}
        /\ s[y] = "."
        /\ sp[2] >= y + 2 /\ s[sp[2]] = "}}"
        /\ \A j \in (y + 2)..(sp[2] - 1) : s[j] # "}}" }

\* the leftmost token of s, on its own
FirstToken(s) ==
  LET sp == CHOOSE a \in TokenSpans(s) : \A b \in TokenSpans(s) : a[1] <= b[1]
  IN  SubSeq(s, sp[1], sp[2])

\* C17: a string without a reference token resolves to itself; a string
\* that holds one resolves to what its first token alone resolves to, the
\* referenced value, whatever text surrounds the token.
C17_WholeValueOrLiteral ==
  probe.done =>
    IF TokenSpans(probe.value.s) = {}
    THEN probe.out = probe.value
    ELSE probe.out = substituteTemplates(Str(FirstToken(probe.value.s)), probe.results)

C17_Witness ==
  /\ probe.done
  /\ probe.value = Str(<<"text", "{{", "prev:", "0", ".", "date", "}}", "text">>)
  /\ probe.results = <<Obj("date" :> IsoDate)>>
  /\ probe.out = IsoDate

\* ------------------------------------------------------------------------
\* Properties of extractJsonArray, continued
\* ------------------------------------------------------------------------
\* C18: a text that parses as a JSON string whose content is the JSON text
\* of an array is normalized to that array.
C18_DoubleEncodedPlanIsParsed ==
  (probe.done /\ probe.kind \in {"double", "padded"}) => probe.out = probe.inner

\* ------------------------------------------------------------------------
\* Properties of the request handler: the tool name's prefix
\* ------------------------------------------------------------------------
\* step k is written functions.<name> with <name> a key of the registry
Prefixed(k) ==
  /\ k < Len(plan.a)
  /\ Len(StepTool(k)) = 2 /\ StepTool(k)[1] = "functions."
  /\ StepTool(k)[2] \in DOMAIN assistants.o[assistant].o

\* the arguments the handler of tool name is given for a step's args,
\* resolved against the history of the k steps before it
ArgsOfStepNaming(name, step, k) ==
  sanitizeArgs(assistants.o[assistant].o[name].o["definition"],
               IF "args" \in DOMAIN step.o
               THEN substituteTemplates(step.o["args"], SubSeq(results, 1, k))
               ELSE EmptyObj)

\* C19: a step functions.<name> with <name> registered is executed as a
\* step naming <name>: once the loop has reached it, the handler of <name>
\* has been invoked, with the arguments a step naming <name> is given, and
\* the value it returns is recorded; it is never answered as not found.
C19_PrefixIsStripped ==
  HasPlan =>
    \A k \in 0..(Len(plan.a) - 1) :
      (Prefixed(k) /\ Len(results) >= k /\ Begun(k)) =>
        /\ Len(calls) >= k + 1
        /\ calls[k + 1].tool = StepTool(k)[2]
        /\ calls[k + 1].args = ArgsOfStepNaming(StepTool(k)[2], plan.a[k + 1], k)
        /\ \A r \in 1..Len(responses) :
             responses[r].content # NotFoundMessage(StepTool(k))
        /\ (Len(settled) >= k + 1 /\ settled[k + 1].kind = "return")
             => /\ settled[k + 1] \in HandlerOutcomes(StepTool(k)[2], calls[k + 1].args)
                /\ Len(results) >= k + 1 /\ results[k + 1] = settled[k + 1].v

C19_Witness ==
  /\ Done /\ HasPlan /\ Len(plan.a) >= 2
  /\ Prefixed(1)
  /\ Len(calls) >= 2 /\ calls[2].tool = "getCurrentDate"
  /\ calls[2].args = Obj("offset" :> Num(1))
  /\ Len(results) >= 2 /\ results[2] = Obj("date" :> IsoDate)

AllRecorded == HasPlan /\ Len(results) = Len(plan.a)

\* the handler invocations belong to distinct steps of the plan
OneInvocationPerStep ==
  /\ HasPlan => Len(calls) <= Len(plan.a)
  /\ ~HasPlan => calls = <<>>
  /\ \A a, b \in 1..Len(calls) : calls[a].step = calls[b].step => a = b
  /\ \A a \in 1..Len(calls) : calls[a].step \in 0..(Len(plan.a) - 1)

RECURSIVE RunAlone(_, _, _, _)
RunAlone(tools, steps, h, outs) ==
  LET ended(status, content) ==
        [results |-> h, responses |-> <<[status |-> status, content |-> content]>>]
  IN  IF Len(h) = Len(steps) THEN ended(200, stringifyToolResult(last(h)))
      ELSE LET step == steps[Len(h) + 1]
               tool == OptGet(step, <<"tool">>)
               toolName == StripPrefix(tool.s)
               toolEntry == LookupTool(tools, toolName)
           IN  IF step.t \in {"undefined", "null"} \/ tool.t # "string"
               THEN ended(500, ServerError)
               ELSE IF IsSentinel(toolName) THEN ended(200, RefusalMessage)
               ELSE IF ~Truthy(toolEntry) THEN ended(200, NotFoundMessage(tool.s))
               ELSE IF OptGet(toolEntry, <<"handler">>).t # "function"
               THEN ended(500, ServerError)
               ELSE IF outs = <<>> THEN [results |-> h, responses |-> <<>>]
               ELSE IF AwaitThrows(Head(outs)) THEN ended(500, ServerError)
               ELSE RunAlone(tools, steps, Append(h, Head(outs).v), Tail(outs))

\* what the handlers awaited by the call req returned, in order
OwnReturns(req) ==
  [j \in {n \in 1..Len(req.settled) : ~AwaitThrows(req.settled[n])} |-> req.settled[j].v]

\* the arguments of step k (zero-based) of the call req, its references
\* resolved against what its own handlers returned before that step
OwnArgs(req, k) ==
  LET step == req.plan.a[k + 1]
      toolEntry == LookupTool(AssistantOf(req.assistant),
                              StripPrefix(OptGet(step, <<"tool">>).s))
      rawArgs == IF Truthy(GetProp(step, <<"args">>))
                 THEN substituteTemplates(GetProp(step, <<"args">>),
                                          SubSeq(OwnReturns(req), 1, k))
                 ELSE EmptyObj
  IN  sanitizeArgs(OptGet(toolEntry, <<"definition">>), rawArgs)

\* C21: while two requests are handled side by side, interleaved at the
\* awaits of their model calls and tool handlers, the history of each is
\* what its own handlers returned, in order; the arguments of each of its
\* invocations are its step's arguments resolved against its own earlier
\* results, never the other request's; when it has ended, its history and
\* its response are those of the loop run on its own with the same plan and
\* the same handler results; and the registry is the one the module was
\* loaded with.
C21_RequestsAreIsolated ==
  /\ registry = assistants
  /\ \A r \in Requests :
       LET req == requests[r]
       IN  /\ req.results = OwnReturns(req)
           /\ \A c \in 1..Len(req.calls) :
                /\ req.calls[c].step = c - 1
                /\ req.calls[c].args = OwnArgs(req, c - 1)
           /\ (req.pc = "done" /\ req.plan.t = "array") =>
                LET alone == RunAlone(AssistantOf(req.assistant), req.plan.a, <<>>,
                                      req.settled)
                IN  /\ req.results = alone.results
                    /\ req.responses = alone.responses

\* both requests await a handler at once; the first holds a date in its
\* history and its reference resolved to it, while the second, whose plan
\* refers to a result it never produced, invoked its handler with an
\* undefined date
C21_Witness ==
  /\ requests[1].pc = "invoking"
  /\ requests[2].pc = "invoking"
  /\ requests[1].results = <<Obj("date" :> IsoDate)>>
  /\ requests[1].calls[2].args = Obj("date" :> IsoDate)
  /\ Len(requests[2].plan.a) = 1
  /\ requests[2].results = <<>>
  /\ requests[2].calls[1].args = Obj("date" :> Undef)

====
